---- MODULE Spec2Model ----
(***************************************************************************)
(* sigma: first-order propagation of uncertainty.                          *)
(*                                                                         *)
(* An Uncertain<double> holds a mean, a standard deviation and a map from  *)
(* shared independent variables to partial derivatives.  The model keeps   *)
(* every Uncertain object in a heap (objs) and every independent variable  *)
(* in a second heap (ivars); an index is the object's identity, so that    *)
(* aliasing of operands (x op= x) is what it is in the C++ code.           *)
(*                                                                         *)
(* value_t (double) is modelled as the extended rationals: a sign bit and  *)
(* an exact magnitude n/d, plus the infinities and NaN of IEEE-754.        *)
(* Rounding of finite results is not modelled; division by zero, signed    *)
(* zeros, inf and NaN are.                                                 *)
(***************************************************************************)
EXTENDS Integers, Sequences, FiniteSets, TLC

\* ------------------------------------------------------------------------
\* Bounds of the model
\* ------------------------------------------------------------------------

\* Largest number of constructor and operator calls in one run.
MaxOps == 3

\* Largest numerator and denominator of the mean and the derivatives of an
\* object that is used as an operand.
MaxMag == 6

\* ------------------------------------------------------------------------
\* value_t: double arithmetic
\* ------------------------------------------------------------------------

RECURSIVE GCD(_, _)
GCD(a, b) == IF b = 0 THEN a ELSE GCD(b, a % b)

NaN == [k |-> "nan", s |-> 0, n |-> 0, d |-> 1]

Inf(sgn) == [k |-> "inf", s |-> sgn, n |-> 0, d |-> 1]

\* The finite double (-1)^sgn * num/den, in lowest terms.
Fin(sgn, num, den) ==
    LET g == GCD(num, den)
    IN  [k |-> "fin", s |-> sgn, n |-> num \div g, d |-> den \div g]

\* An integer literal such as 1.0 or -1.0.
Lit(i) == IF i < 0 THEN Fin(1, -i, 1) ELSE Fin(0, i, 1)

IsNaN(x) == x.k = "nan"

IsZero(x) == x.k = "fin" /\ x.n = 0

Xor(a, b) == IF a = b THEN 0 ELSE 1

\* unary minus on a double: flips the sign bit
FNeg(x) == IF IsNaN(x) THEN NaN ELSE [x EXCEPT !.s = 1 - x.s]

\* x * y
FMul(x, y) ==
    IF IsNaN(x) \/ IsNaN(y) THEN NaN
    ELSE IF x.k = "inf" \/ y.k = "inf"
         THEN IF IsZero(x) \/ IsZero(y) THEN NaN ELSE Inf(Xor(x.s, y.s))
         ELSE Fin(Xor(x.s, y.s), x.n * y.n, x.d * y.d)

\* x / y
FDiv(x, y) ==
    IF IsNaN(x) \/ IsNaN(y) THEN NaN
    ELSE IF x.k = "inf"
         THEN IF y.k = "inf" THEN NaN ELSE Inf(Xor(x.s, y.s))
         ELSE IF y.k = "inf" THEN Fin(Xor(x.s, y.s), 0, 1)
         ELSE IF IsZero(y)
              THEN IF IsZero(x) THEN NaN ELSE Inf(Xor(x.s, y.s))
              ELSE Fin(Xor(x.s, y.s), x.n * y.d, x.d * y.n)

\* x + y (round to nearest: an exact zero sum of opposite signs is +0)
FAdd(x, y) ==
    IF IsNaN(x) \/ IsNaN(y) THEN NaN
    ELSE IF x.k = "inf"
         THEN IF y.k = "inf" /\ y.s # x.s THEN NaN ELSE x
         ELSE IF y.k = "inf" THEN y
         ELSE LET sx  == IF x.s = 1 THEN -x.n ELSE x.n
                  sy  == IF y.s = 1 THEN -y.n ELSE y.n
                  g   == GCD(x.d, y.d)
                  num == sx * (y.d \div g) + sy * (x.d \div g)
                  den == (x.d \div g) * y.d
              IN  IF num = 0
                  THEN Fin(IF x.s = 1 /\ y.s = 1 THEN 1 ELSE 0, 0, 1)
                  ELSE IF num < 0 THEN Fin(1, -num, den)
                                  ELSE Fin(0, num, den)

\* x - y
FSub(x, y) == FAdd(x, FNeg(y))

\* x == y on doubles: NaN equals nothing, -0 equals +0
FEq(x, y) ==
    /\ ~IsNaN(x)
    /\ ~IsNaN(y)
    /\ \/ IsZero(x) /\ IsZero(y)
       \/ x = y

\* std::pow(x, 2.0)
Pow2(x) == FMul(x, x)

RECURSIVE IntPower(_, _)
IntPower(b, e) == IF e = 0 THEN 1 ELSE b * IntPower(b, e - 1)

\* std::pow(x, p) for an exponent p that is a whole number
FPow(x, p) ==
    LET odd == p % 2 = 1
        sgn == IF odd THEN x.s ELSE 0
        q   == IF p < 0 THEN -p ELSE p
    IN  IF p = 0 THEN Fin(0, 1, 1)
        ELSE IF IsNaN(x) THEN NaN
        ELSE IF IsZero(x) THEN (IF p > 0 THEN Fin(sgn, 0, 1) ELSE Inf(sgn))
        ELSE IF x.k = "inf" THEN (IF p > 0 THEN Inf(sgn) ELSE Fin(sgn, 0, 1))
        ELSE IF p > 0 THEN Fin(sgn, IntPower(x.n, q), IntPower(x.d, q))
        ELSE Fin(sgn, IntPower(x.d, q), IntPower(x.n, q))

\* The result of std::sqrt is kept exactly, as a sign and the radicand:
\* the double (-1)^sgn * sqrt(sq).
Sqrt(x) ==
    IF IsNaN(x) THEN [sgn |-> 0, sq |-> NaN]
    ELSE IF IsZero(x) THEN [sgn |-> x.s, sq |-> Fin(0, 0, 1)]
    ELSE IF x.s = 1 THEN [sgn |-> 0, sq |-> NaN]
    ELSE [sgn |-> 0, sq |-> x]

\* A double v stored where a square root is stored: v = sign(v) * sqrt(v*v).
AsRoot(v) == [sgn |-> IF IsNaN(v) THEN 0 ELSE v.s, sq |-> FMul(v, v)]

\* lhs.std() == rhs.std()
RootEq(a, b) ==
    /\ FEq(a.sq, b.sq)
    /\ IsZero(a.sq) \/ a.sgn = b.sgn

\* ------------------------------------------------------------------------
\* State
\* ------------------------------------------------------------------------

VARIABLES
    ivars,   \* the IndependentVariable objects: ivars[v] is the std of the
             \* variable whose identity (shared_ptr address) is v
    objs,    \* the Uncertain objects: objs[i] is the object of identity i
    last,    \* the call that led to this state: its name, its operands (the
             \* objects a and b, the number k, the constructor's std s), the
             \* object it returned, the heap before it, and its target
             \* after each Setter call
    nops     \* the number of calls made so far

vars == <<ivars, objs, last, nops>>

\* The arguments a caller passes to Uncertain(mean, std).
Inputs ==
    { <<Lit(0), Lit(1)>>,
      <<Lit(2), Fin(0, 1, 10)>>,
      <<Lit(3), Fin(0, 1, 5)>>,
      <<Lit(4), Fin(0, 1, 5)>>,
      <<Inf(0), Lit(1)>> }

\* The plain numbers a caller passes as a scalar operand.
Scalars == { Lit(0), Lit(-2) }

\* The whole numbers a caller passes to pow.
Exponents == { 2, 0, -1 }

\* What the members of a default-initialised Uncertain may hold.
Indeterminate == { Lit(0), NaN }

\* ------------------------------------------------------------------------
\* deps_map_t: std::map<ind_var_ptr, value_t>
\* ------------------------------------------------------------------------

\* The keys of a map in iteration order.
RECURSIVE SortedKeys(_)
SortedKeys(ks) ==
    IF ks = {} THEN <<>>
    ELSE LET lo == CHOOSE k \in ks : \A j \in ks : k <= j
         IN  <<lo>> \o SortedKeys(ks \ {lo})

Keys(deps) == SortedKeys(DOMAIN deps)

EmptyDeps == [v \in {} |-> NaN]

\* m_deps_ with var's derivative increased by deriv, or var added with it.
update_dependency(deps, var, deriv) ==
    IF var \in DOMAIN deps
    THEN [deps EXCEPT ![var] = FAdd(@, deriv)]
    ELSE [v \in DOMAIN deps \cup {var} |->
             IF v = var THEN deriv ELSE deps[v]]

\* for (dep, deriv) in src: update_dependency(dep, dydx * deriv), from the
\* i-th key of src on.  A key is visited once and an update touches that
\* key alone, so when src is the map being updated each deriv read is the
\* value the entry had when the loop began.
RECURSIVE update_dependencies_from(_, _, _, _, _)
update_dependencies_from(deps, src, ks, i, dydx) ==
    IF i > Len(ks) THEN deps
    ELSE update_dependencies_from(
             update_dependency(deps, ks[i], FMul(dydx, src[ks[i]])),
             src, ks, i + 1, dydx)

update_dependencies(deps, src, dydx) ==
    update_dependencies_from(deps, src, Keys(src), 1, dydx)

\* for (dep, deriv) in m_deps_: m_deps_[dep] *= v
scale_dependencies(deps, v) == [k \in DOMAIN deps |-> FMul(deps[k], v)]

\* lhs == rhs on two maps: equal sizes, then the entries pairwise in order,
\* keys by address and derivatives by the == of double
deps_equal(a, b) ==
    LET ka == Keys(a)
        kb == Keys(b)
    IN  /\ Len(ka) = Len(kb)
        /\ \A i \in 1..Len(ka) : ka[i] = kb[i] /\ FEq(a[ka[i]], b[kb[i]])

\* ------------------------------------------------------------------------
\* Uncertain
\* ------------------------------------------------------------------------

\* The sum over the entries of deps of (derivative * std of the variable)^2.
RECURSIVE sum_of_squares(_, _, _)
sum_of_squares(deps, ks, i) ==
    IF i > Len(ks) THEN Lit(0)
    ELSE FAdd(Pow2(FMul(ivars[ks[i]], deps[ks[i]])),
              sum_of_squares(deps, ks, i + 1))

\* calculate_std of the object t of the heap h
calculate_std(h, t) ==
    [h EXCEPT ![t].m_std_ =
        Sqrt(sum_of_squares(h[t].m_deps_, Keys(h[t].m_deps_), 1))]

\* Uncertain(mean, std) recording no sensitivity to its variable
Uncertain_zero_derivative(mean, std, var) ==
    [m_mean_ |-> mean,
     m_std_  |-> AsRoot(std),
     m_deps_ |-> [v \in {var} |-> Lit(0)]]

\* Uncertain(mean, std): the object, depending on the new variable var
Uncertain(mean, std, var) ==
    [m_mean_ |-> mean,
     m_std_  |-> AsRoot(std),
     m_deps_ |-> [v \in {var} |-> Lit(1)]]

\* Uncertain(): mean and std are left uninitialised, the map is empty
UncertainDefault(g1, g2) ==
    [m_mean_ |-> g1, m_std_ |-> AsRoot(g2), m_deps_ |-> EmptyDeps]

\* operator== without the comparison of the maps
equal_ignoring_deps(lhs, rhs) ==
    IF ~FEq(lhs.m_mean_, rhs.m_mean_) THEN FALSE
    ELSE IF ~RootEq(lhs.m_std_, rhs.m_std_) THEN FALSE
    ELSE TRUE

\* operator==
equal(lhs, rhs) ==
    IF ~FEq(lhs.m_mean_, rhs.m_mean_) THEN FALSE
    ELSE IF ~RootEq(lhs.m_std_, rhs.m_std_) THEN FALSE
    ELSE IF ~deps_equal(lhs.m_deps_, rhs.m_deps_) THEN FALSE
    ELSE TRUE

\* operator!=
not_equal(lhs, rhs) == ~equal(lhs, rhs)

\* ------------------------------------------------------------------------
\* Setter<UncertainType>, wrapping the object t of the heap h
\* ------------------------------------------------------------------------

\* update_mean(mean)
update_mean(h, t, mean) ==
    calculate_std([h EXCEPT ![t].m_mean_ = mean], t)

\* update_derivatives(dxda): scale every derivative of the target
update_derivatives_scale(h, t, dxda) ==
    calculate_std(
        [h EXCEPT ![t].m_deps_ = scale_dependencies(@, dxda)], t)

\* update_derivatives(dxda, flag) leaving the std as it was when flag is false
update_derivatives_scale_deferred(h, t, dxda, flag) ==
    IF flag THEN update_derivatives_scale(h, t, dxda)
    ELSE [h EXCEPT ![t].m_deps_ = scale_dependencies(@, dxda)]

\* update_derivatives(dxda, flag), as *= and /= call it.  Every Setter call
\* ends with the recomputation of the std, whatever the second argument.
update_derivatives_scale_flag(h, t, dxda, flag) ==
    update_derivatives_scale(h, t, dxda)

\* update_derivatives(deps, dxda): merge deps, scaled, into the target
update_derivatives(h, t, deps, dxda) ==
    calculate_std(
        [h EXCEPT ![t].m_deps_ = update_dependencies(@, deps, dxda)], t)

\* update_derivatives(a_deps, dxda, b_deps, dxdb)
update_derivatives_two(h, t, a_deps, dxda, b_deps, dxdb) ==
    calculate_std(
        [h EXCEPT ![t].m_deps_ =
            update_dependencies(update_dependencies(@, a_deps, dxda),
                                b_deps, dxdb)], t)

\* What an operator did: the heap it leaves, the object it returns, and
\* that object after each of the operator's Setter calls.
Done(hs, t) ==
    [h     |-> IF Len(hs) = 0 THEN <<>> ELSE hs[Len(hs)],
     t     |-> t,
     calls |-> [i \in 1..Len(hs) |-> hs[i][t]]]

\* The heap h with a new object copy-constructed from the object x.
CopyOf(h, x) == Append(h, h[x])

\* ------------------------------------------------------------------------
\* Operators on Uncertain.  Each takes the heap and the identities of its
\* operands; a new object (a local c that is returned) is the next identity.
\* ------------------------------------------------------------------------

\* operator-(const UncertainType&) negating the mean only
op_neg_mean_only(h, u) ==
    LET c  == Len(h) + 1
        h0 == CopyOf(h, u)
        h1 == update_mean(h0, c, FNeg(h0[u].m_mean_))
    IN  Done(<<h1>>, c)

\* UncertainType operator-(const UncertainType& u)
op_neg(h, u) ==
    LET c  == Len(h) + 1
        h0 == CopyOf(h, u)
        h1 == update_mean(h0, c, FNeg(h0[u].m_mean_))
        h2 == update_derivatives_scale(h1, c, Lit(-1))
    IN  Done(<<h1, h2>>, c)

\* UncertainType& operator+=(UncertainType& lhs, const UncertainType& rhs)
op_add_assign(h, lhs, rhs) ==
    LET h1 == update_mean(h, lhs, FAdd(h[lhs].m_mean_, h[rhs].m_mean_))
        h2 == update_derivatives(h1, lhs, h1[rhs].m_deps_, Lit(1))
    IN  Done(<<h1, h2>>, lhs)

\* operator+ adding into lhs itself, without the copy
op_add_no_copy(h, lhs, rhs) == op_add_assign(h, lhs, rhs)

\* UncertainType operator+(const UncertainType& lhs, const UncertainType& rhs)
op_add(h, lhs, rhs) == op_add_assign(CopyOf(h, lhs), Len(h) + 1, rhs)

\* operator-= merging the right operand's map with the sign of operator+=
op_sub_assign_adds(h, lhs, rhs) ==
    LET h1 == update_mean(h, lhs, FSub(h[lhs].m_mean_, h[rhs].m_mean_))
        h2 == update_derivatives(h1, lhs, h1[rhs].m_deps_, Lit(1))
    IN  Done(<<h1, h2>>, lhs)

\* operator-= dropping the entries whose derivative has become zero
op_sub_assign_pruned(h, lhs, rhs) ==
    LET h1 == update_mean(h, lhs, FSub(h[lhs].m_mean_, h[rhs].m_mean_))
        h2 == update_derivatives(h1, lhs, h1[rhs].m_deps_, Lit(-1))
        d  == h2[lhs].m_deps_
        h3 == [h2 EXCEPT ![lhs].m_deps_ =
                  [v \in {w \in DOMAIN d : ~IsZero(d[w])} |-> d[v]]]
    IN  Done(<<h1, h3>>, lhs)

\* UncertainType& operator-=(UncertainType& lhs, const UncertainType& rhs)
op_sub_assign(h, lhs, rhs) ==
    LET h1 == update_mean(h, lhs, FSub(h[lhs].m_mean_, h[rhs].m_mean_))
        h2 == update_derivatives(h1, lhs, h1[rhs].m_deps_, Lit(-1))
    IN  Done(<<h1, h2>>, lhs)

\* UncertainType operator-(const UncertainType& lhs, const UncertainType& rhs)
op_sub(h, lhs, rhs) == op_sub_assign(CopyOf(h, lhs), Len(h) + 1, rhs)

\* operator- as sigma/operations/subtraction.cpp builds it: a default
\* constructed c (members g1, g2) and one update of the derivatives
op_sub_fresh(h, lhs, rhs, g1, g2) ==
    LET c  == Len(h) + 1
        h0 == Append(h, UncertainDefault(g1, g2))
        h1 == update_mean(h0, c, FSub(h0[lhs].m_mean_, h0[rhs].m_mean_))
        h2 == update_derivatives_two(h1, c, h1[lhs].m_deps_, Lit(1),
                                     h1[rhs].m_deps_, Lit(-1))
    IN  Done(<<h1, h2>>, c)

\* operator*= with the two partial derivatives exchanged
op_mul_assign_swapped(h, lhs, rhs) ==
    LET dcda == h[lhs].m_mean_
        dcdb == h[rhs].m_mean_
        h1   == update_mean(h, lhs, FMul(h[lhs].m_mean_, h[rhs].m_mean_))
        h2   == update_derivatives_scale_flag(h1, lhs, dcda, FALSE)
        h3   == update_derivatives(h2, lhs, h2[rhs].m_deps_, dcdb)
    IN  Done(<<h1, h2, h3>>, lhs)

\* UncertainType& operator*=(UncertainType& lhs, const UncertainType& rhs)
op_mul_assign(h, lhs, rhs) ==
    LET dcda == h[rhs].m_mean_
        dcdb == h[lhs].m_mean_
        h1   == update_mean(h, lhs, FMul(h[lhs].m_mean_, h[rhs].m_mean_))
        h2   == update_derivatives_scale_flag(h1, lhs, dcda, FALSE)
        h3   == update_derivatives(h2, lhs, h2[rhs].m_deps_, dcdb)
    IN  Done(<<h1, h2, h3>>, lhs)

\* UncertainType operator*(const UncertainType& lhs, const UncertainType& rhs)
op_mul(h, lhs, rhs) == op_mul_assign(CopyOf(h, lhs), Len(h) + 1, rhs)

\* operator*=(UncertainType&, double) scaling the mean only
op_mul_assign_scalar_mean_only(h, lhs, rhs) ==
    LET h1 == update_mean(h, lhs, FMul(h[lhs].m_mean_, rhs))
    IN  Done(<<h1>>, lhs)

\* UncertainType& operator*=(UncertainType& lhs, double rhs)
op_mul_assign_scalar(h, lhs, rhs) ==
    LET h1 == update_mean(h, lhs, FMul(h[lhs].m_mean_, rhs))
        h2 == update_derivatives_scale(h1, lhs, rhs)
    IN  Done(<<h1, h2>>, lhs)

\* UncertainType operator*(const UncertainType& lhs, double rhs)
op_mul_scalar(h, lhs, rhs) ==
    op_mul_assign_scalar(CopyOf(h, lhs), Len(h) + 1, rhs)

\* UncertainType operator*(double lhs, const UncertainType& rhs)
op_scalar_mul(h, lhs, rhs) == op_mul_scalar(h, rhs, lhs)

\* member_mul without its call of calculate_std
member_mul_stale_std(h, this, v) ==
    LET c  == Len(h) + 1
        h0 == CopyOf(h, this)
        h1 == [h0 EXCEPT ![c].m_mean_ = FMul(v, h0[this].m_mean_)]
        h2 == [h1 EXCEPT ![c].m_deps_ = scale_dependencies(@, v)]
    IN  [h |-> h2, t |-> c, calls |-> <<>>]

\* my_t Uncertain::operator*(NumericType v) const, the member of
\* sigma/uncertain.hpp, which writes the members itself
member_mul(h, this, v) ==
    LET c  == Len(h) + 1
        h0 == CopyOf(h, this)
        h1 == [h0 EXCEPT ![c].m_mean_ = FMul(v, h0[this].m_mean_)]
        h2 == [h1 EXCEPT ![c].m_deps_ = scale_dependencies(@, v)]
        h3 == calculate_std(h2, c)
    IN  [h |-> h3, t |-> c, calls |-> <<>>]

\* Uncertain::pow scaling the derivatives by mean^(exp-1), without exp
member_pow_unscaled(h, this, exp) ==
    LET c    == Len(h) + 1
        h0   == CopyOf(h, this)
        h1   == [h0 EXCEPT ![c].m_mean_ = FPow(h0[this].m_mean_, exp)]
        dydx == FPow(h0[this].m_mean_, exp - 1)
        h2   == [h1 EXCEPT ![c].m_deps_ = scale_dependencies(@, dydx)]
        h3   == calculate_std(h2, c)
    IN  [h |-> h3, t |-> c, calls |-> <<>>]

\* my_t Uncertain::pow(NumericType exp) const
member_pow(h, this, exp) ==
    LET c    == Len(h) + 1
        h0   == CopyOf(h, this)
        h1   == [h0 EXCEPT ![c].m_mean_ = FPow(h0[this].m_mean_, exp)]
        dydx == FMul(Lit(exp), FPow(h0[this].m_mean_, exp - 1))
        h2   == [h1 EXCEPT ![c].m_deps_ = scale_dependencies(@, dydx)]
        h3   == calculate_std(h2, c)
    IN  [h |-> h3, t |-> c, calls |-> <<>>]

\* UNCERTAIN operator*(ValueType v, const UNCERTAIN& u) of sigma/uncertain.hpp
scalar_member_mul(h, v, u) == member_mul(h, u, v)

\* operator/= with the derivative with respect to rhs taken positive
op_div_assign_positive(h, lhs, rhs) ==
    LET dcda == FDiv(Lit(1), h[rhs].m_mean_)
        dcdb == FDiv(h[lhs].m_mean_, Pow2(h[rhs].m_mean_))
        h1   == update_mean(h, lhs, FDiv(h[lhs].m_mean_, h[rhs].m_mean_))
        h2   == update_derivatives_scale_flag(h1, lhs, dcda, FALSE)
        h3   == update_derivatives(h2, lhs, h2[rhs].m_deps_, dcdb)
    IN  Done(<<h1, h2, h3>>, lhs)

\* UncertainType& operator/=(UncertainType& lhs, const UncertainType& rhs)
op_div_assign(h, lhs, rhs) ==
    LET dcda == FDiv(Lit(1), h[rhs].m_mean_)
        dcdb == FDiv(FNeg(h[lhs].m_mean_), Pow2(h[rhs].m_mean_))
        h1   == update_mean(h, lhs, FDiv(h[lhs].m_mean_, h[rhs].m_mean_))
        h2   == update_derivatives_scale_flag(h1, lhs, dcda, FALSE)
        h3   == update_derivatives(h2, lhs, h2[rhs].m_deps_, dcdb)
    IN  Done(<<h1, h2, h3>>, lhs)

\* UncertainType operator/(const UncertainType& lhs, const UncertainType& rhs)
op_div(h, lhs, rhs) == op_div_assign(CopyOf(h, lhs), Len(h) + 1, rhs)

\* operator/ of sigma/operations/division.cpp taking the map of lhs unscaled
op_div_fresh_unscaled(h, lhs, rhs, g1, g2) ==
    LET dxdb == FDiv(FNeg(h[lhs].m_mean_), Pow2(h[rhs].m_mean_))
        c    == Len(h) + 1
        h0   == Append(h, UncertainDefault(g1, g2))
        h1   == update_mean(h0, c, FDiv(h0[lhs].m_mean_, h0[rhs].m_mean_))
        h2   == update_derivatives_two(h1, c, h1[lhs].m_deps_, Lit(1),
                                       h1[rhs].m_deps_, dxdb)
    IN  Done(<<h1, h2>>, c)

\* operator/ as sigma/operations/division.cpp builds it
op_div_fresh(h, lhs, rhs, g1, g2) ==
    LET dxda == FDiv(Lit(1), h[rhs].m_mean_)
        dxdb == FDiv(FNeg(h[lhs].m_mean_), Pow2(h[rhs].m_mean_))
        c    == Len(h) + 1
        h0   == Append(h, UncertainDefault(g1, g2))
        h1   == update_mean(h0, c, FDiv(h0[lhs].m_mean_, h0[rhs].m_mean_))
        h2   == update_derivatives_two(h1, c, h1[lhs].m_deps_, dxda,
                                       h1[rhs].m_deps_, dxdb)
    IN  Done(<<h1, h2>>, c)

\* UncertainType& operator/=(UncertainType& lhs, double rhs)
op_div_assign_scalar(h, lhs, rhs) ==
    LET h1 == update_mean(h, lhs, FDiv(h[lhs].m_mean_, rhs))
        h2 == update_derivatives_scale(h1, lhs, FDiv(Lit(1), rhs))
    IN  Done(<<h1, h2>>, lhs)

\* UncertainType operator/(const UncertainType& lhs, double rhs)
op_div_scalar(h, lhs, rhs) ==
    op_div_assign_scalar(CopyOf(h, lhs), Len(h) + 1, rhs)

\* operator/(const UncertainType&, double) of sigma/operations/division.cpp
op_div_scalar_setter(h, lhs, rhs) ==
    LET c  == Len(h) + 1
        h0 == CopyOf(h, lhs)
        h1 == update_mean(h0, c, FDiv(h0[lhs].m_mean_, rhs))
        h2 == update_derivatives_scale(h1, c, FDiv(Lit(1), rhs))
    IN  Done(<<h1, h2>>, c)

\* UncertainType operator/(double lhs, const UncertainType& rhs)
op_scalar_div(h, lhs, rhs) ==
    LET c  == Len(h) + 1
        h0 == CopyOf(h, rhs)
        h1 == update_mean(h0, c, FDiv(lhs, h0[rhs].m_mean_))
        h2 == update_derivatives_scale(
                  h1, c, FDiv(FNeg(lhs), Pow2(h0[rhs].m_mean_)))
    IN  Done(<<h1, h2>>, c)

\* ------------------------------------------------------------------------
\* The calls a program makes
\* ------------------------------------------------------------------------

Live == 1..Len(objs)

NoCall ==
    [op |-> "none", a |-> 0, b |-> 0, k |-> NaN, s |-> NaN, res |-> 0,
     pre |-> <<>>, calls |-> <<>>]

Init ==
    /\ ivars = <<>>
    /\ objs = <<>>
    /\ last = NoCall
    /\ nops = 0

\* A finite double within the bounds of the model (inf and NaN always are).
InRange(x) == x.k # "fin" \/ (x.n <= MaxMag /\ x.d <= MaxMag)

\* The object x is within the bounds of the model (0: no object).
Operand(x) ==
    IF x = 0 THEN TRUE
    ELSE /\ InRange(objs[x].m_mean_)
         /\ \A v \in DOMAIN objs[x].m_deps_ : InRange(objs[x].m_deps_[v])

\* The operator named op, called on the objects a and b (0: none) and the
\* plain number k (NaN: none), did r.
Call(op, a, b, k, r) ==
    /\ nops < MaxOps
    /\ Operand(a)
    /\ Operand(b)
    /\ objs' = r.h
    /\ last' = [op |-> op, a |-> a, b |-> b, k |-> k, s |-> NaN,
                res |-> r.t, pre |-> objs, calls |-> r.calls]
    /\ nops' = nops + 1
    /\ UNCHANGED ivars

\* Uncertain x(mean, std);
Construct ==
    \E in \in Inputs :
        /\ nops < MaxOps
        /\ ivars' = Append(ivars, in[2])
        /\ objs' = Append(objs, Uncertain(in[1], in[2], Len(ivars) + 1))
        /\ last' = [op |-> "construct", a |-> 0, b |-> 0, k |-> in[1],
                    s |-> in[2], res |-> Len(objs) + 1, pre |-> objs,
                    calls |-> <<>>]
        /\ nops' = nops + 1

\* Uncertain c(x);
Copy ==
    \E x \in Live :
        Call("copy", x, 0, NaN,
             [h |-> CopyOf(objs, x), t |-> Len(objs) + 1, calls |-> <<>>])

Neg == \E x \in Live : Call("neg", x, 0, NaN, op_neg(objs, x))

Add == \E x, y \in Live : Call("add", x, y, NaN, op_add(objs, x, y))

AddAssign ==
    \E x, y \in Live : Call("add_assign", x, y, NaN, op_add_assign(objs, x, y))

Sub == \E x, y \in Live : Call("sub", x, y, NaN, op_sub(objs, x, y))

SubFresh ==
    \E x, y \in Live : \E g1, g2 \in Indeterminate :
        Call("sub_fresh", x, y, NaN, op_sub_fresh(objs, x, y, g1, g2))

SubAssign ==
    \E x, y \in Live : Call("sub_assign", x, y, NaN, op_sub_assign(objs, x, y))

Mul == \E x, y \in Live : Call("mul", x, y, NaN, op_mul(objs, x, y))

MulAssign ==
    \E x, y \in Live : Call("mul_assign", x, y, NaN, op_mul_assign(objs, x, y))

MulScalar ==
    \E x \in Live : \E k \in Scalars :
        Call("mul_scalar", x, 0, k, op_mul_scalar(objs, x, k))

ScalarMul ==
    \E x \in Live : \E k \in Scalars :
        Call("scalar_mul", x, 0, k, op_scalar_mul(objs, k, x))

MulAssignScalar ==
    \E x \in Live : \E k \in Scalars :
        Call("mul_assign_scalar", x, 0, k, op_mul_assign_scalar(objs, x, k))

MemberMul ==
    \E x \in Live : \E k \in Scalars :
        Call("member_mul", x, 0, k, member_mul(objs, x, k))

ScalarMemberMul ==
    \E x \in Live : \E k \in Scalars :
        Call("scalar_member_mul", x, 0, k, scalar_member_mul(objs, k, x))

Div == \E x, y \in Live : Call("div", x, y, NaN, op_div(objs, x, y))

DivFresh ==
    \E x, y \in Live : \E g1, g2 \in Indeterminate :
        Call("div_fresh", x, y, NaN, op_div_fresh(objs, x, y, g1, g2))

DivAssign ==
    \E x, y \in Live : Call("div_assign", x, y, NaN, op_div_assign(objs, x, y))

DivScalar ==
    \E x \in Live : \E k \in Scalars :
        Call("div_scalar", x, 0, k, op_div_scalar(objs, x, k))

DivScalarSetter ==
    \E x \in Live : \E k \in Scalars :
        Call("div_scalar_setter", x, 0, k, op_div_scalar_setter(objs, x, k))

DivAssignScalar ==
    \E x \in Live : \E k \in Scalars :
        Call("div_assign_scalar", x, 0, k, op_div_assign_scalar(objs, x, k))

ScalarDiv ==
    \E x \in Live : \E k \in Scalars :
        Call("scalar_div", x, 0, k, op_scalar_div(objs, k, x))

PowOf ==
    \E x \in Live : \E p \in Exponents :
        Call("pow", x, 0, Lit(p), member_pow(objs, x, p))

Next ==
    \/ Construct
    \/ Copy
    \/ Neg
    \/ Add
    \/ AddAssign
    \/ Sub
    \/ SubFresh
    \/ SubAssign
    \/ Mul
    \/ MulAssign
    \/ MulScalar
    \/ ScalarMul
    \/ MulAssignScalar
    \/ MemberMul
    \/ ScalarMemberMul
    \/ Div
    \/ DivFresh
    \/ DivAssign
    \/ DivScalar
    \/ DivScalarSetter
    \/ DivAssignScalar
    \/ ScalarDiv
    \/ PowOf

Spec == Init /\ [][Next]_vars

\* ------------------------------------------------------------------------
\* Vocabulary of the properties
\* ------------------------------------------------------------------------

\* The same number: equal as doubles, or both NaN.
Same(x, y) == (IsNaN(x) /\ IsNaN(y)) \/ FEq(x, y)

Finite(x) == x.k = "fin"

\* The derivative of the object o with respect to v, 0 when v is no key.
Coef(o, v) == IF v \in DOMAIN o.m_deps_ THEN o.m_deps_[v] ELSE Lit(0)

\* Every derivative of the object o is finite.
FiniteDeps(o) == \A v \in DOMAIN o.m_deps_ : Finite(o.m_deps_[v])

\* The mean and every derivative of the object o are finite.
FiniteObj(o) == Finite(o.m_mean_) /\ FiniteDeps(o)

\* The sum over the entries (v, coeff) of deps of coeff^2 * std(v)^2.
RECURSIVE Variance(_, _)
Variance(deps, vs) ==
    IF vs = {} THEN Lit(0)
    ELSE LET v == CHOOSE w \in vs : TRUE
         IN  FAdd(FMul(FMul(deps[v], deps[v]), FMul(ivars[v], ivars[v])),
                  Variance(deps, vs \ {v}))

\* o.std() >= 0
StdNonNegative(o) ==
    /\ ~IsNaN(o.m_std_.sq)
    /\ o.m_std_.sgn = 0 \/ IsZero(o.m_std_.sq)

\* o.std() squared is the variance its map gives, and o.std() >= 0.
StdAgrees(o) ==
    /\ Same(o.m_std_.sq, Variance(o.m_deps_, DOMAIN o.m_deps_))
    /\ StdNonNegative(o)

\* The object the last call returned (or mutated and returned).
Result == objs[last.res]

\* ------------------------------------------------------------------------
\* C1
\* ------------------------------------------------------------------------

\* C1 as stated: every object, after any sequence of constructions, copies
\* and operators, has a std that is >= 0 and whose square is the sum of
\* coeff^2 * std(v)^2 over its dependency map.
C1_AsStated == \A i \in Live : StdAgrees(objs[i])

\* C1 amended: for every object the square of std is that sum, NaN where
\* the sum is NaN (a derivative is NaN, or an infinite derivative meets a
\* variable of std 0: what a division by a zero mean or a zero scalar
\* leaves), and std >= 0 wherever the sum is not NaN.
C1_StdInvariant ==
    \A i \in Live :
        LET o == objs[i]
            sum == Variance(o.m_deps_, DOMAIN o.m_deps_)
        IN  /\ Same(o.m_std_.sq, sum)
            /\ ~IsNaN(sum) => StdNonNegative(o)

\* An operator has merged two maps into an object with two finite, nonzero
\* derivatives and a nonzero std.
C1_Witness ==
    /\ last.op \in {"mul", "mul_assign", "div", "div_fresh", "sub_fresh"}
    /\ Cardinality(DOMAIN Result.m_deps_) = 2
    /\ \A v \in DOMAIN Result.m_deps_ :
          Finite(Result.m_deps_[v]) /\ ~IsZero(Result.m_deps_[v])
    /\ ~IsZero(Result.m_std_.sq)

\* ------------------------------------------------------------------------
\* C2
\* ------------------------------------------------------------------------

\* C2: Uncertain(m, s) has mean m, std s and exactly one dependency, with
\* derivative 1, on a variable of std s that no earlier object depends on.
C2_Construction ==
    last.op = "construct" =>
        /\ Result.m_mean_ = last.k
        /\ Result.m_std_ = AsRoot(last.s)
        /\ \E v \in DOMAIN ivars :
              /\ DOMAIN Result.m_deps_ = {v}
              /\ Result.m_deps_[v] = Lit(1)
              /\ ivars[v] = last.s
              /\ \A i \in DOMAIN last.pre : v \notin DOMAIN last.pre[i].m_deps_

\* A second object has been constructed with the arguments of the first.
C2_Witness ==
    /\ last.op = "construct"
    /\ last.res = 2
    /\ Result.m_mean_ = objs[1].m_mean_
    /\ Result.m_std_ = objs[1].m_std_

\* ------------------------------------------------------------------------
\* C3
\* ------------------------------------------------------------------------

SubOps == {"sub", "sub_fresh", "sub_assign"}

\* The operands of the last call, as they were when it was called.
PreA == last.pre[last.a]

PreB == last.pre[last.b]

\* The independent variables the object o depends on all have a finite std.
FiniteVars(o) == \A v \in DOMAIN o.m_deps_ : Finite(ivars[v])

\* The object o is as Uncertain(m, s) constructs it.
AsConstructed(o) ==
    \E v \in DOMAIN ivars :
        /\ DOMAIN o.m_deps_ = {v}
        /\ o.m_deps_[v] = Lit(1)
        /\ o.m_std_ = AsRoot(ivars[v])

\* x and y are separately constructed Uncertain(m, s) with the same m and s.
EqualConstructions(x, y) ==
    /\ AsConstructed(x)
    /\ AsConstructed(y)
    /\ DOMAIN x.m_deps_ # DOMAIN y.m_deps_
    /\ x.m_mean_ = y.m_mean_
    /\ x.m_std_ = y.m_std_

\* mean 0 and std sqrt(2) * s, i.e. variance 2 * s^2
IndependentDifference ==
    /\ Same(Result.m_mean_, Lit(0))
    /\ Result.m_std_.sgn = 0
    /\ Same(Result.m_std_.sq, FMul(Lit(2), PreA.m_std_.sq))

\* mean 0 and std 0
ZeroDifference ==
    /\ Same(Result.m_mean_, Lit(0))
    /\ Same(Result.m_std_.sq, Lit(0))

\* C3 as stated: x - x has mean 0 and std 0 for every x, and x - y of two
\* separately constructed Uncertain(m, s) has mean 0 and std sqrt(2) * s.
C3_AsStated ==
    /\ (last.op \in SubOps /\ last.a = last.b) => ZeroDifference
    /\ (/\ last.op \in SubOps
        /\ last.a # last.b
        /\ EqualConstructions(PreA, PreB)) => IndependentDifference

\* C3 amended: both halves hold where the mean and the derivatives of x are
\* finite, over variables of finite std (inf - inf and NaN - NaN are NaN).
C3_Subtraction ==
    /\ (/\ last.op \in SubOps
        /\ last.a = last.b
        /\ FiniteObj(PreA)
        /\ FiniteVars(PreA)) => ZeroDifference
    /\ (/\ last.op \in SubOps
        /\ last.a # last.b
        /\ EqualConstructions(PreA, PreB)
        /\ FiniteObj(PreA)
        /\ FiniteVars(PreA)) => IndependentDifference

\* x - x has been taken of an x that an operator built, of nonzero std.
C3_Witness ==
    /\ last.op \in SubOps
    /\ last.a = last.b
    /\ FiniteObj(PreA)
    /\ ~AsConstructed(PreA)
    /\ ~IsZero(PreA.m_std_.sq)
    /\ ~IsNaN(PreA.m_std_.sq)

\* x - y has been taken of two separately constructed Uncertain(m, s).
C3_WitnessIndependent ==
    /\ last.op \in SubOps
    /\ last.a # last.b
    /\ EqualConstructions(PreA, PreB)
    /\ FiniteObj(PreA)
    /\ ~IsZero(Result.m_std_.sq)

\* ------------------------------------------------------------------------
\* C4
\* ------------------------------------------------------------------------

PureOps ==
    {"neg", "add", "sub", "sub_fresh", "mul", "mul_scalar", "scalar_mul",
     "member_mul", "scalar_member_mul", "div", "div_fresh", "div_scalar",
     "div_scalar_setter", "scalar_div", "pow"}

AssignOps ==
    {"add_assign", "sub_assign", "mul_assign", "div_assign",
     "mul_assign_scalar", "div_assign_scalar"}

\* C4: a non-assigning operator returns a new object and leaves every
\* object that existed, its operands among them, as it was (also for
\* x op x); an assigning operator changes its left operand alone, so that
\* mutating a result changes no operand it was computed from.
C4_Purity ==
    /\ last.op \in PureOps =>
          /\ last.res = Len(last.pre) + 1
          /\ Len(objs) = Len(last.pre) + 1
          /\ \A i \in DOMAIN last.pre : objs[i] = last.pre[i]
    /\ last.op \in AssignOps =>
          /\ last.res = last.a
          /\ Len(objs) = Len(last.pre)
          /\ \A i \in DOMAIN last.pre \ {last.a} : objs[i] = last.pre[i]

\* x + x has been evaluated, both operands being one object, and the sum
\* differs from x.
C4_Witness ==
    /\ last.op = "add"
    /\ last.a = last.b
    /\ Result # PreA

\* ------------------------------------------------------------------------
\* C5
\* ------------------------------------------------------------------------

\* c = x * y has mean(x) * mean(y), and for every independent variable v
\* the derivative mean(y) * x[v] + mean(x) * y[v].
ProductRule ==
    /\ Same(Result.m_mean_, FMul(PreA.m_mean_, PreB.m_mean_))
    /\ \A v \in DOMAIN ivars :
          Same(Coef(Result, v),
               FAdd(FMul(PreB.m_mean_, Coef(PreA, v)),
                    FMul(PreA.m_mean_, Coef(PreB, v))))

\* Uncertain(2, 0.1) * Uncertain(3, 0.2), independent, is 6 +/- 0.5.
ProductExample ==
    (/\ AsConstructed(PreA)
     /\ AsConstructed(PreB)
     /\ DOMAIN PreA.m_deps_ # DOMAIN PreB.m_deps_
     /\ PreA.m_mean_ = Lit(2)
     /\ PreA.m_std_ = AsRoot(Fin(0, 1, 10))
     /\ PreB.m_mean_ = Lit(3)
     /\ PreB.m_std_ = AsRoot(Fin(0, 1, 5)))
    => /\ Result.m_mean_ = Lit(6)
       /\ Result.m_std_ = AsRoot(Fin(0, 1, 2))

\* C5 as stated: the product rule for all x and y, and the example.
C5_AsStated == last.op = "mul" => ProductRule /\ ProductExample

\* C5 amended: the product rule for all x and y of finite mean, and the
\* example.  (With an infinite mean the 0 of an absent entry times the
\* mean is NaN, while the code leaves the other operand's term as it is.)
C5_ProductRule ==
    last.op = "mul" =>
        /\ (Finite(PreA.m_mean_) /\ Finite(PreB.m_mean_)) => ProductRule
        /\ ProductExample

\* x * y has been taken of two objects that share a variable and have
\* different nonzero means.
C5_Witness ==
    /\ last.op = "mul"
    /\ last.a # last.b
    /\ FiniteObj(PreA)
    /\ FiniteObj(PreB)
    /\ DOMAIN PreA.m_deps_ \cap DOMAIN PreB.m_deps_ # {}
    /\ ~Same(PreA.m_mean_, PreB.m_mean_)
    /\ ~IsZero(PreA.m_mean_)
    /\ ~IsZero(PreB.m_mean_)
    /\ \A v \in DOMAIN Result.m_deps_ : ~IsZero(Result.m_deps_[v])

\* The product of the example has been taken.
C5_WitnessExample ==
    /\ last.op = "mul"
    /\ Result.m_mean_ = Lit(6)
    /\ Result.m_std_ = AsRoot(Fin(0, 1, 2))
    /\ Cardinality(DOMAIN Result.m_deps_) = 2

\* ------------------------------------------------------------------------
\* C6
\* ------------------------------------------------------------------------

DivOps == {"div", "div_fresh"}

\* c = x / y has mean(x) / mean(y), and for every independent variable v
\* the derivative x[v] / mean(y) - (mean(x) / mean(y)^2) * y[v].
QuotientRule ==
    /\ Same(Result.m_mean_, FDiv(PreA.m_mean_, PreB.m_mean_))
    /\ \A v \in DOMAIN ivars :
          Same(Coef(Result, v),
               FSub(FDiv(Coef(PreA, v), PreB.m_mean_),
                    FMul(FDiv(PreA.m_mean_, Pow2(PreB.m_mean_)),
                         Coef(PreB, v))))

\* mean 1, every derivative 0, std 0
UnitQuotient ==
    /\ Same(Result.m_mean_, Lit(1))
    /\ \A v \in DOMAIN Result.m_deps_ : Same(Result.m_deps_[v], Lit(0))
    /\ Same(Result.m_std_.sq, Lit(0))

\* C6 as stated: the quotient rule for all x and y with mean(y) != 0, and
\* x / x is 1 with std 0.
C6_AsStated ==
    (last.op \in DivOps /\ ~FEq(PreB.m_mean_, Lit(0))) =>
        /\ QuotientRule
        /\ last.a = last.b => UnitQuotient

\* C6 amended: the quotient rule for all x of finite mean and all y whose
\* mean is neither 0 nor NaN, and x / x is 1 with std 0 where the mean
\* and the derivatives of x are finite, over variables of finite std.
\* (The 0 of an absent entry times an infinite or NaN factor is NaN,
\* while the code leaves the entry absent or as the other term gives it.)
C6_QuotientRule ==
    (/\ last.op \in DivOps
     /\ ~FEq(PreB.m_mean_, Lit(0))
     /\ Finite(PreA.m_mean_)
     /\ ~IsNaN(PreB.m_mean_)) =>
        /\ QuotientRule
        /\ (last.a = last.b /\ FiniteDeps(PreA) /\ FiniteVars(PreA))
              => UnitQuotient

\* x / y has been taken of two objects that share a variable, y of mean
\* other than 0 and 1, and every derivative of the quotient is nonzero.
C6_Witness ==
    /\ last.op \in DivOps
    /\ last.a # last.b
    /\ FiniteObj(PreA)
    /\ FiniteObj(PreB)
    /\ DOMAIN PreA.m_deps_ \cap DOMAIN PreB.m_deps_ # {}
    /\ ~IsZero(PreB.m_mean_)
    /\ ~Same(PreB.m_mean_, Lit(1))
    /\ ~IsZero(PreA.m_mean_)
    /\ \A v \in DOMAIN Result.m_deps_ : ~IsZero(Result.m_deps_[v])

\* x / x has been taken of an x of finite nonzero mean and nonzero std.
C6_WitnessSelf ==
    /\ last.op \in DivOps
    /\ last.a = last.b
    /\ FiniteObj(PreA)
    /\ ~IsZero(PreA.m_mean_)
    /\ ~IsZero(PreA.m_std_.sq)

\* ------------------------------------------------------------------------
\* C7
\* ------------------------------------------------------------------------

SamePairs(a, b) ==
    /\ DOMAIN a = DOMAIN b
    /\ \A v \in DOMAIN a : FEq(a[v], b[v])

\* The object o holds a NaN.
HoldsNaN(o) ==
    \/ IsNaN(o.m_mean_)
    \/ IsNaN(o.m_std_.sq)
    \/ \E v \in DOMAIN o.m_deps_ : IsNaN(o.m_deps_[v])

\* == compares mean, std and the pairs of the maps; != negates it; == is
\* symmetric; separately constructed equal arguments give unequal objects.
EqualityRules ==
    \A i, j \in Live :
        LET a == objs[i]
            b == objs[j]
        IN  /\ equal(a, b) <=> /\ FEq(a.m_mean_, b.m_mean_)
                               /\ RootEq(a.m_std_, b.m_std_)
                               /\ SamePairs(a.m_deps_, b.m_deps_)
            /\ not_equal(a, b) <=> ~equal(a, b)
            /\ equal(a, b) <=> equal(b, a)
            /\ (i # j /\ EqualConstructions(a, b)) => ~equal(a, b)

\* C8 as stated: the rules above, == is reflexive, and a copy of x equals x.
C8_AsStated ==
    /\ EqualityRules
    /\ \A i \in Live : equal(objs[i], objs[i])
    /\ last.op = "copy" => equal(Result, PreA)

\* C8 amended: == is reflexive, and a copy of x equals x, for objects that
\* hold no NaN in mean, std or derivatives (NaN == NaN is false); the rest
\* is as stated.
C8_Equality ==
    /\ EqualityRules
    /\ \A i \in Live : equal(objs[i], objs[i]) <=> ~HoldsNaN(objs[i])
    /\ last.op = "copy" => (equal(Result, PreA) <=> ~HoldsNaN(PreA))

\* Three objects exist: x, a copy of x, and a separately constructed
\* object of the same mean and std.
C8_Witness ==
    /\ last.op = "copy"
    /\ Len(objs) = 3
    /\ \E i, j \in Live : i # j /\ EqualConstructions(objs[i], objs[j])
    /\ equal(Result, PreA)

\* ------------------------------------------------------------------------
\* C9
\* ------------------------------------------------------------------------

ScaleOps ==
    {"mul_scalar", "scalar_mul", "mul_assign_scalar",
     "member_mul", "scalar_member_mul"}

\* The last call scaled x by k: the mean is mean(x)*k, the keys are those of
\* x, every derivative is multiplied by k, and the std is |k| * std(x).
ScalingRule ==
    last.op \in ScaleOps =>
        /\ Same(Result.m_mean_, FMul(PreA.m_mean_, last.k))
        /\ DOMAIN Result.m_deps_ = DOMAIN PreA.m_deps_
        /\ \A v \in DOMAIN PreA.m_deps_ :
               Same(Result.m_deps_[v], FMul(PreA.m_deps_[v], last.k))
        /\ Same(Result.m_std_.sq, FMul(Pow2(last.k), PreA.m_std_.sq))
        /\ ~IsNaN(Result.m_std_.sq) => StdNonNegative(Result)

\* x * k for the x and k of the last call k * x, by the operator of the
\* same header.
Commuted ==
    IF last.op = "scalar_mul"
    THEN op_mul_scalar(last.pre, last.a, last.k).h[Len(last.pre) + 1]
    ELSE member_mul(last.pre, last.a, last.k).h[Len(last.pre) + 1]

\* C9 as stated: the scaling rule, and k * x == x * k.
C9_AsStated ==
    /\ ScalingRule
    /\ last.op \in {"scalar_mul", "scalar_member_mul"} =>
           equal(Result, Commuted)

\* C9 amended: the scaling rule for finite k, and k * x == x * k exactly
\* when the product holds no NaN (NaN == NaN is false).
C9_ScalarScaling ==
    /\ ScalingRule
    /\ last.op \in {"scalar_mul", "scalar_member_mul"} =>
           (equal(Result, Commuted) <=> ~HoldsNaN(Result))

\* k * x with k < 0 and x of finite mean and nonzero std has been computed.
C9_Witness ==
    /\ last.op = "scalar_mul"
    /\ last.k = Lit(-2)
    /\ FiniteObj(PreA)
    /\ ~IsNaN(PreA.m_std_.sq) /\ ~IsZero(PreA.m_std_.sq)
    /\ ~IsZero(PreA.m_mean_)
    /\ equal(Result, Commuted)

\* x * 0 with x of nonzero std has been computed.
C9_WitnessZero ==
    /\ last.op \in {"mul_scalar", "member_mul"}
    /\ last.k = Lit(0)
    /\ FiniteObj(PreA)
    /\ ~IsNaN(PreA.m_std_.sq) /\ ~IsZero(PreA.m_std_.sq)
    /\ DOMAIN Result.m_deps_ # {}

\* ------------------------------------------------------------------------
\* C10
\* ------------------------------------------------------------------------

\* -x has the mean and every derivative of x negated, and the std of x.
NegationRule ==
    last.op = "neg" =>
        /\ Same(Result.m_mean_, FNeg(PreA.m_mean_))
        /\ DOMAIN Result.m_deps_ = DOMAIN PreA.m_deps_
        /\ \A v \in DOMAIN PreA.m_deps_ :
               Same(Result.m_deps_[v], FNeg(PreA.m_deps_[v]))
        /\ Same(Result.m_std_.sq, PreA.m_std_.sq)
        /\ Result.m_std_.sgn = PreA.m_std_.sgn

\* The last call added to x the value that -x gives.
AddedInverse ==
    /\ last.op \in {"add", "add_assign"}
    /\ PreB = op_neg(last.pre, last.a).h[Len(last.pre) + 1]

\* The result has mean 0, std 0 and every derivative 0.
IsZeroValue(o) ==
    /\ FEq(o.m_mean_, Lit(0))
    /\ FEq(o.m_std_.sq, Lit(0))
    /\ \A v \in DOMAIN o.m_deps_ : FEq(o.m_deps_[v], Lit(0))

\* C10 as stated: the negation rule, and x + (-x) is zero for every x.
C10_AsStated ==
    /\ NegationRule
    /\ AddedInverse => IsZeroValue(Result)

\* C10 amended: the negation rule, and x + (-x) is zero for every x whose
\* mean and derivatives are finite, over variables of finite std.
C10_AdditiveInverse ==
    /\ NegationRule
    /\ (AddedInverse /\ FiniteObj(PreA) /\ FiniteVars(PreA)) =>
           IsZeroValue(Result)

\* x + (-x) has been computed for an x of finite nonzero mean and nonzero
\* std.
C10_Witness ==
    /\ AddedInverse
    /\ last.a # last.b
    /\ FiniteObj(PreA)
    /\ ~IsZero(PreA.m_mean_)
    /\ ~IsNaN(PreA.m_std_.sq) /\ ~IsZero(PreA.m_std_.sq)
    /\ IsZeroValue(Result)

\* -x has been computed for an x of nonzero mean and nonzero derivative.
C10_WitnessNeg ==
    /\ last.op = "neg"
    /\ FiniteObj(PreA)
    /\ ~IsZero(PreA.m_mean_)
    /\ \E v \in DOMAIN PreA.m_deps_ : ~IsZero(PreA.m_deps_[v])

\* ------------------------------------------------------------------------
\* C11
\* ------------------------------------------------------------------------

\* The whole number the exponent of the last call of pow was.
ExponentOf(k) == IF k.s = 1 THEN -k.n ELSE k.n

\* x.pow(p) has mean mean(x)^p, the keys of x, every derivative of x
\* multiplied by p * mean(x)^(p-1), and the std that map gives.
PowerRule ==
    last.op = "pow" =>
        LET p    == ExponentOf(last.k)
            dydx == FMul(last.k, FPow(PreA.m_mean_, p - 1))
        IN  /\ Same(Result.m_mean_, FPow(PreA.m_mean_, p))
            /\ DOMAIN Result.m_deps_ = DOMAIN PreA.m_deps_
            /\ \A v \in DOMAIN PreA.m_deps_ :
                   Same(Result.m_deps_[v], FMul(PreA.m_deps_[v], dydx))
            /\ Result.m_std_ =
                   Sqrt(Variance(Result.m_deps_, DOMAIN Result.m_deps_))

\* The last call was Uncertain(4, 0.2).pow(2).
PowerExample ==
    /\ last.op = "pow"
    /\ last.k = Lit(2)
    /\ AsConstructed(PreA)
    /\ PreA.m_mean_ = Lit(4)
    /\ PreA.m_std_ = AsRoot(Fin(0, 1, 5))

\* C11: the power rule holds for every x and every whole exponent, and
\* Uncertain(4, 0.2).pow(2) has mean 16 and std 1.6.
C11_Power ==
    /\ PowerRule
    /\ PowerExample =>
           /\ Result.m_mean_ = Lit(16)
           /\ Result.m_std_ = AsRoot(Fin(0, 8, 5))

\* Uncertain(4, 0.2).pow(2) has been computed.
C11_Witness == PowerExample /\ Result.m_mean_ = Lit(16)

\* x.pow(-1) has been computed for an x of finite nonzero mean and nonzero
\* std.
C11_WitnessInverse ==
    /\ last.op = "pow"
    /\ last.k = Lit(-1)
    /\ Finite(PreA.m_mean_) /\ ~IsZero(PreA.m_mean_)
    /\ ~IsNaN(Result.m_std_.sq) /\ ~IsZero(Result.m_std_.sq)

\* ------------------------------------------------------------------------
\* C12
\* ------------------------------------------------------------------------

\* The objects x and y have the same mean, the same std and the same map
\* (a NaN counting as the same as a NaN).
StructurallySame(x, y) ==
    /\ Same(x.m_mean_, y.m_mean_)
    /\ Same(x.m_std_.sq, y.m_std_.sq)
    /\ (~IsNaN(x.m_std_.sq) /\ ~IsZero(x.m_std_.sq)) =>
           x.m_std_.sgn = y.m_std_.sgn
    /\ DOMAIN x.m_deps_ = DOMAIN y.m_deps_
    /\ \A v \in DOMAIN x.m_deps_ : Same(x.m_deps_[v], y.m_deps_[v])

\* What a call of a pure operator returned.
Returned(r) == r.h[r.t]

\* The values the pure operator of the last in-place call gives on the
\* operands as they were before the call, one for each way the pure
\* operator is built.
PureValues ==
    LET h == last.pre
        a == last.a
        b == last.b
    IN  CASE last.op = "add_assign" -> { Returned(op_add(h, a, b)) }
          [] last.op = "sub_assign" ->
                 { Returned(op_sub(h, a, b)) } \cup
                 { Returned(op_sub_fresh(h, a, b, g1, g2)) :
                       g1 \in Indeterminate, g2 \in Indeterminate }
          [] last.op = "mul_assign" -> { Returned(op_mul(h, a, b)) }
          [] last.op = "div_assign" ->
                 { Returned(op_div(h, a, b)) } \cup
                 { Returned(op_div_fresh(h, a, b, g1, g2)) :
                       g1 \in Indeterminate, g2 \in Indeterminate }
          [] OTHER -> {}

InPlaceOps == {"add_assign", "sub_assign", "mul_assign", "div_assign"}

\* C12: a op= b on distinct a and b leaves a with the value of a op b,
\* however the pure operator is built, leaves b as it was, adds no object
\* and returns a.
C12_InPlaceAgrees ==
    (last.op \in InPlaceOps /\ last.a # last.b) =>
        /\ \A c \in PureValues : StructurallySame(Result, c)
        /\ objs[last.b] = PreB
        /\ last.res = last.a
        /\ Len(objs) = Len(last.pre)

\* a /= b has been computed for distinct a and b of finite nonzero means,
\* b bringing a variable a did not depend on.
C12_Witness ==
    /\ last.op = "div_assign"
    /\ last.a # last.b
    /\ FiniteObj(PreA) /\ FiniteObj(PreB)
    /\ ~IsZero(PreA.m_mean_) /\ ~IsZero(PreB.m_mean_)
    /\ DOMAIN PreA.m_deps_ # DOMAIN Result.m_deps_
    /\ ~IsZero(Result.m_std_.sq)
    /\ Cardinality(PureValues) >= 1

\* a -= b has been computed for distinct a and b that share a variable.
C12_WitnessShared ==
    /\ last.op = "sub_assign"
    /\ last.a # last.b
    /\ FiniteObj(PreA) /\ FiniteObj(PreB)
    /\ DOMAIN PreA.m_deps_ \cap DOMAIN PreB.m_deps_ # {}
    /\ ~IsZero(PreB.m_std_.sq)

\* ------------------------------------------------------------------------
\* C13
\* ------------------------------------------------------------------------

\* The last call was x op= x.
SelfAliased == last.op \in InPlaceOps /\ last.a = last.b

\* x has the squared mean of what it was and every derivative multiplied by
\* twice that mean.
SquareOfPre ==
    /\ Same(Result.m_mean_, FMul(PreA.m_mean_, PreA.m_mean_))
    /\ DOMAIN Result.m_deps_ = DOMAIN PreA.m_deps_
    /\ \A v \in DOMAIN PreA.m_deps_ :
           Same(Result.m_deps_[v],
                FMul(PreA.m_deps_[v], FMul(Lit(2), PreA.m_mean_)))

\* C13 as stated, read for x of finite nonzero mean and finite derivatives:
\* x op= x leaves x with the value of x op x on x as it was; x *= x gives
\* the squared mean and the derivatives times 2*mean(x); x /= x gives mean
\* 1 and every derivative 0.
C13_AsStated ==
    (SelfAliased /\ FiniteObj(PreA) /\ FiniteVars(PreA)
                 /\ ~IsZero(PreA.m_mean_)) =>
        /\ \A c \in PureValues : StructurallySame(Result, c)
        /\ last.op = "mul_assign" => SquareOfPre
        /\ last.op = "div_assign" => UnitQuotient

\* What holds of C13: x += x and x -= x leave x with the value of x + x and
\* x - x on x as it was.
C13_AdditiveAliased ==
    (SelfAliased /\ last.op \in {"add_assign", "sub_assign"}) =>
        \A c \in PureValues : StructurallySame(Result, c)

\* x *= x on x = Uncertain(2, 0.1) has left x with mean 4 and the derivative
\* 6 where x * x has the derivative 4.
C13_Witness ==
    /\ SelfAliased
    /\ last.op = "mul_assign"
    /\ AsConstructed(PreA)
    /\ PreA.m_mean_ = Lit(2)
    /\ Result.m_mean_ = Lit(4)
    /\ \A v \in DOMAIN Result.m_deps_ : Result.m_deps_[v] = Lit(6)
    /\ \A v \in DOMAIN Result.m_deps_ :
           Returned(op_mul(last.pre, last.a, last.a)).m_deps_[v] = Lit(4)

\* x /= x on x = Uncertain(2, 0.1) has left x with mean 1 and the
\* derivative 1/4 where x / x has the derivative 0.
C13_WitnessQuotient ==
    /\ SelfAliased
    /\ last.op = "div_assign"
    /\ AsConstructed(PreA)
    /\ PreA.m_mean_ = Lit(2)
    /\ Result.m_mean_ = Lit(1)
    /\ \A v \in DOMAIN Result.m_deps_ : Result.m_deps_[v] = Fin(0, 1, 4)
    /\ \A v \in DOMAIN Result.m_deps_ :
           IsZero(Returned(op_div(last.pre, last.a, last.a)).m_deps_[v])

\* ------------------------------------------------------------------------
\* C14
\* ------------------------------------------------------------------------

\* The operators on two Uncertain.
BinaryOps ==
    {"add", "add_assign", "sub", "sub_fresh", "sub_assign",
     "mul", "mul_assign", "div", "div_fresh", "div_assign"}

\* The operators on one Uncertain, alone or with a plain number.
UnaryOps ==
    {"neg", "mul_scalar", "scalar_mul", "mul_assign_scalar", "member_mul",
     "scalar_member_mul", "div_scalar", "div_scalar_setter",
     "div_assign_scalar", "scalar_div", "pow"}

\* The value of the object o with no dependency.
WithoutDeps(o) == [o EXCEPT !.m_deps_ = EmptyDeps]

\* C14: a binary operator's result has the union of its operands' keys, a
\* unary or scalar operator's result the keys of its operand; no call takes
\* a key from any object; and x - x, for an x that has dependencies, keeps
\* them with derivative 0 and so is not == to the same value without
\* dependencies.
C14_KeysOnlyGrow ==
    /\ last.op \in BinaryOps =>
           DOMAIN Result.m_deps_ =
               DOMAIN PreA.m_deps_ \cup DOMAIN PreB.m_deps_
    /\ last.op \in UnaryOps =>
           DOMAIN Result.m_deps_ = DOMAIN PreA.m_deps_
    /\ \A i \in 1..Len(last.pre) :
           DOMAIN last.pre[i].m_deps_ \subseteq DOMAIN objs[i].m_deps_
    /\ (last.op \in SubOps /\ last.a = last.b
            /\ DOMAIN PreA.m_deps_ # {}) =>
           /\ DOMAIN Result.m_deps_ = DOMAIN PreA.m_deps_
           /\ ~equal(Result, WithoutDeps(Result))
           /\ not_equal(WithoutDeps(Result), Result)

\* x - x has been computed for an x of finite mean and derivatives: the
\* result has mean 0, std 0 and a derivative 0 for every key of x.
C14_Witness ==
    /\ last.op \in SubOps
    /\ last.a = last.b
    /\ FiniteObj(PreA)
    /\ DOMAIN Result.m_deps_ # {}
    /\ \A v \in DOMAIN Result.m_deps_ : IsZero(Result.m_deps_[v])
    /\ IsZero(Result.m_mean_) /\ IsZero(Result.m_std_.sq)

\* A binary operator has joined two different non-empty key sets.
C14_WitnessUnion ==
    /\ last.op \in BinaryOps
    /\ DOMAIN PreA.m_deps_ \ DOMAIN PreB.m_deps_ # {}
    /\ DOMAIN PreB.m_deps_ \ DOMAIN PreA.m_deps_ # {}
    /\ Cardinality(DOMAIN Result.m_deps_) >= 2

====
